---- MODULE Spec2Model ----
(***************************************************************************)
(* Bitpanda wallets integration: the polling coordinator                   *)
(* (BitpandaDataUpdateCoordinator in sensor.py), its two response          *)
(* normalizers (_parse_fiat_wallet, _parse_asset_type), the setup /        *)
(* reload glue around it (async_setup_entry, async_update_listener), and   *)
(* the setup wizard and options flow of config_flow.py.                    *)
(*                                                                         *)
(* Conventions of the model                                                *)
(*  - a JSON object (Python dict) is a function whose domain is the set of *)
(*    keys that are present; d.get(k, default) is Get(d, k, default);      *)
(*  - a JSON scalar that the code hands to float() is a tagged record:     *)
(*    Num(n) a JSON number, NumStr(n) a string that spells a number (what  *)
(*    the exchange sends), BadStr a string that spells no number;          *)
(*  - amounts are fixed point: token balances are whole units, prices and  *)
(*    converted values are thousandths of the display currency, so that    *)
(*    round(x, 2) (round2) is a real rounding to a multiple of 10;         *)
(*  - an instrument symbol is a sequence of characters, so that            *)
(*    str.endswith is computed and not looked up;                          *)
(*  - a Python call that may raise returns a record with a field `raised`. *)
(*  - time is counted in minutes.                                          *)
(***************************************************************************)
EXTENDS Integers, Sequences, FiniteSets, TLC

\* ------------------------------------------------------------------------
\* const.py

UPDATE_INTERVAL == 5

DEFAULT_FIAT_CURRENCY == "EUR"

\* the first two of the ten currencies of const.py
FIAT_CURRENCIES == {"EUR", "USD"}

WALLET_TYPES ==
    {"FIAT", "CRYPTOCOIN", "LEVERAGE", "INDEX", "STOCK", "ETF", "ETC", "METAL"}

\* ------------------------------------------------------------------------
\* JSON values

EmptyDict == [k \in {} |-> k]

Get(d, k, default) == IF k \in DOMAIN d THEN d[k] ELSE default

Num(n) == [k |-> "num", v |-> n]

NumStr(n) == [k |-> "numstr", v |-> n]

BadStr == [k |-> "str", v |-> 0]

\* float(x): a number, or a string that spells one, converts; any other
\* string raises ValueError.
float(x) ==
    IF x.k = "str" THEN [raised |-> TRUE, v |-> 0]
                   ELSE [raised |-> FALSE, v |-> x.v]

\* round(x, 2) of an amount in thousandths: the nearest multiple of 10,
\* a tie going to the even hundredth.
round2(x) ==
    LET q == x \div 10
        r == x % 10
    IN  10 * (IF r < 5 THEN q
              ELSE IF r > 5 THEN q + 1
              ELSE IF q % 2 = 0 THEN q ELSE q + 1)

\* str.endswith on symbols
endswith(s, suffix) ==
    /\ Len(s) >= Len(suffix)
    /\ SubSeq(s, Len(s) - Len(suffix) + 1, Len(s)) = suffix

\* str.lower on the wallet types
lower(wallet_type) ==
    CASE wallet_type = "FIAT" -> "fiat"
      [] wallet_type = "CRYPTOCOIN" -> "cryptocoin"
      [] wallet_type = "LEVERAGE" -> "leverage"
      [] wallet_type = "INDEX" -> "index"
      [] wallet_type = "STOCK" -> "stock"
      [] wallet_type = "ETF" -> "etf"
      [] wallet_type = "ETC" -> "etc"
      [] wallet_type = "METAL" -> "metal"

\* ------------------------------------------------------------------------
\* BitpandaDataUpdateCoordinator._parse_fiat_wallet

RECURSIVE parse_fiat_loop(_, _, _)
parse_fiat_loop(wallets, i, self_currency) ==
    IF i > Len(wallets)
    THEN [raised |-> FALSE, balance |-> 0]
    ELSE LET attributes == Get(wallets[i], "attributes", EmptyDict)
             currency == Get(attributes, "fiat_symbol", "")
         IN  IF currency = self_currency
             THEN LET b == float(Get(attributes, "balance", Num(0)))
                  IN  [raised |-> b.raised, balance |-> b.v]
             ELSE parse_fiat_loop(wallets, i + 1, self_currency)

\* variant: the balance of the first wallet, whatever its currency
parse_fiat_wallet_any_currency(response_json, self_currency) ==
    LET wallets == Get(response_json, "data", <<>>)
    IN  IF wallets = <<>>
        THEN [raised |-> FALSE, balance |-> 0]
        ELSE LET b == float(Get(Get(wallets[1], "attributes", EmptyDict),
                                "balance", Num(0)))
             IN  [raised |-> b.raised, balance |-> b.v]

parse_fiat_wallet(response_json, self_currency) ==
    parse_fiat_loop(Get(response_json, "data", <<>>), 1, self_currency)

\* ------------------------------------------------------------------------
\* BitpandaDataUpdateCoordinator._parse_asset_type

Raised == [raised |-> TRUE, total_balance |-> 0, wallets_info |-> <<>>]

\* variant: only the long marker is recognised
is_leverage_long_only(currency) == endswith(currency, <<"2", "L">>)

is_leverage(currency) ==
    endswith(currency, <<"2", "L">>) \/ endswith(currency, <<"1", "S">>)

\* the branch of the cryptocoin loop that decides whether a wallet with a
\* positive balance belongs to the requested wallet type
crypto_selected(wallet_type, currency) ==
    \/ wallet_type = "LEVERAGE" /\ is_leverage(currency)
    \/ wallet_type = "CRYPTOCOIN" /\ ~is_leverage(currency)

\* the body shared by both loops once a wallet is included: price lookup,
\* conversion, accumulation, append
\* variant: a wallet whose symbol has no price in the target currency is
\* left out
add_wallet_skip_unpriced(acc, wallet_attrs, balance_token, currency, ticker_data, self_currency) ==
    LET price == float(Get(Get(ticker_data, currency, EmptyDict),
                           self_currency, Num(0)))
        balance_converted == balance_token * price.v
    IN  IF self_currency \notin DOMAIN Get(ticker_data, currency, EmptyDict)
        THEN acc
        ELSE IF price.raised THEN Raised
        ELSE [raised |-> FALSE,
              total_balance |-> acc.total_balance + balance_converted,
              wallets_info |-> Append(acc.wallets_info,
                  [name |-> Get(wallet_attrs, "name", ""),
                   balance_token |-> balance_token,
                   balance_currency |-> round2(balance_converted),
                   currency |-> currency])]

\* variant: the total accumulates the rounded values
add_wallet_sum_rounded(acc, wallet_attrs, balance_token, currency, ticker_data, self_currency) ==
    LET price == float(Get(Get(ticker_data, currency, EmptyDict),
                           self_currency, Num(0)))
        balance_converted == balance_token * price.v
    IN  IF price.raised THEN Raised
        ELSE [raised |-> FALSE,
              total_balance |-> acc.total_balance + round2(balance_converted),
              wallets_info |-> Append(acc.wallets_info,
                  [name |-> Get(wallet_attrs, "name", ""),
                   balance_token |-> balance_token,
                   balance_currency |-> round2(balance_converted),
                   currency |-> currency])]

add_wallet(acc, wallet_attrs, balance_token, currency, ticker_data, self_currency) ==
    LET price == float(Get(Get(ticker_data, currency, EmptyDict),
                           self_currency, Num(0)))
        balance_converted == balance_token * price.v
    IN  IF price.raised THEN Raised
        ELSE [raised |-> FALSE,
              total_balance |-> acc.total_balance + balance_converted,
              wallets_info |-> Append(acc.wallets_info,
                  [name |-> Get(wallet_attrs, "name", ""),
                   balance_token |-> balance_token,
                   balance_currency |-> round2(balance_converted),
                   currency |-> currency])]

RECURSIVE crypto_loop(_, _, _, _, _, _)
crypto_loop(crypto_data, i, wallet_type, ticker_data, self_currency, acc) ==
    IF i > Len(crypto_data) \/ acc.raised
    THEN acc
    ELSE LET wallet_attrs == Get(crypto_data[i], "attributes", EmptyDict)
             balance_token == float(Get(wallet_attrs, "balance", Num(0)))
             currency == Get(wallet_attrs, "cryptocoin_symbol", <<>>)
             next ==
                 IF balance_token.raised THEN Raised
                 ELSE IF balance_token.v > 0
                         /\ crypto_selected(wallet_type, currency)
                 THEN add_wallet(acc, wallet_attrs, balance_token.v, currency,
                                 ticker_data, self_currency)
                 ELSE acc
         IN  crypto_loop(crypto_data, i + 1, wallet_type, ticker_data,
                         self_currency, next)

RECURSIVE other_loop(_, _, _, _, _)
other_loop(wallets, i, ticker_data, self_currency, acc) ==
    IF i > Len(wallets) \/ acc.raised
    THEN acc
    ELSE LET wallet_attrs == Get(wallets[i], "attributes", EmptyDict)
             balance_token == float(Get(wallet_attrs, "balance", Num(0)))
             currency == Get(wallet_attrs, "cryptocoin_symbol", <<>>)
             next ==
                 IF balance_token.raised THEN Raised
                 ELSE IF balance_token.v > 0
                 THEN add_wallet(acc, wallet_attrs, balance_token.v, currency,
                                 ticker_data, self_currency)
                 ELSE acc
         IN  other_loop(wallets, i + 1, ticker_data, self_currency, next)

\* the per-category lookup of the sub-tree: flat key first, then the key
\* under 'security', 'commodity', 'index'
wallet_data_of(attributes, wallet_type_lower) ==
    IF wallet_type_lower \in DOMAIN attributes
    THEN Get(Get(attributes, wallet_type_lower, EmptyDict), "attributes", EmptyDict)
    ELSE IF wallet_type_lower \in DOMAIN Get(attributes, "security", EmptyDict)
    THEN Get(attributes["security"][wallet_type_lower], "attributes", EmptyDict)
    ELSE IF wallet_type_lower \in DOMAIN Get(attributes, "commodity", EmptyDict)
    THEN Get(attributes["commodity"][wallet_type_lower], "attributes", EmptyDict)
    ELSE IF wallet_type_lower \in DOMAIN Get(attributes, "index", EmptyDict)
    THEN Get(attributes["index"][wallet_type_lower], "attributes", EmptyDict)
    ELSE EmptyDict

parse_asset_type(response_json, wallet_type, ticker_data, self_currency) ==
    LET data == Get(response_json, "data", EmptyDict)
        attributes == Get(data, "attributes", EmptyDict)
        start == [raised |-> FALSE, total_balance |-> 0, wallets_info |-> <<>>]
    IN  IF wallet_type \in {"CRYPTOCOIN", "LEVERAGE"}
        THEN LET crypto_data ==
                     Get(Get(Get(attributes, "cryptocoin", EmptyDict),
                             "attributes", EmptyDict), "wallets", <<>>)
             IN  crypto_loop(crypto_data, 1, wallet_type, ticker_data,
                             self_currency, start)
        ELSE LET wallet_data == wallet_data_of(attributes, lower(wallet_type))
                 wallets == Get(wallet_data, "wallets", <<>>)
             IN  other_loop(wallets, 1, ticker_data, self_currency, start)


\* ------------------------------------------------------------------------
\* The exchange's responses, as the coordinator can receive them

BTC == <<"B", "T", "C">>

BTC2L == <<"B", "T", "C", "2", "L">>

ETH1S == <<"E", "T", "H", "1", "S">>

AAPL == <<"A", "A", "P", "L">>

\* a wallet record of /asset-wallets
Wallet(name, symbol, balance) ==
    [attributes |-> [name |-> name, cryptocoin_symbol |-> symbol, balance |-> balance]]

\* a wallet record of /fiatwallets
FiatWallet(fiat_symbol, balance) ==
    [attributes |-> [fiat_symbol |-> fiat_symbol, balance |-> balance]]

Group(wallets) == [attributes |-> [wallets |-> wallets]]

TickerA ==
    (BTC :> [EUR |-> NumStr(50000), USD |-> NumStr(54000)])
    @@ (BTC2L :> [EUR |-> NumStr(1234), USD |-> NumStr(1335)])
    @@ (AAPL :> [EUR |-> NumStr(7005)])

TickerB ==
    (BTC :> [EUR |-> NumStr(40000), USD |-> BadStr])
    @@ (ETH1S :> [EUR |-> Num(15)])

TickerBodies == {TickerA, TickerB}

AssetA ==
    [data |-> [attributes |->
        [cryptocoin |-> Group(<<Wallet("Bitcoin", BTC, NumStr(2)),
                                Wallet("BTC 2x Long", BTC2L, NumStr(3)),
                                Wallet("Empty", BTC, NumStr(0))>>),
         security |-> [stock |-> Group(<<Wallet("Apple", AAPL, NumStr(1))>>)]]]]

AssetB ==
    [data |-> [attributes |->
        [cryptocoin |-> Group(<<Wallet("Bitcoin", BTC, BadStr)>>),
         stock |-> Group(<<Wallet("Apple", AAPL, NumStr(4))>>)]]]

AssetBodies == {AssetA, AssetB}

FiatA == [data |-> <<FiatWallet("USD", NumStr(5000)), FiatWallet("EUR", NumStr(123450))>>]

FiatB == [data |-> <<FiatWallet("EUR", BadStr)>>]

FiatBodies == {FiatA, FiatB}

Statuses == {200, 401, 500}

\* what session.get can deliver: a transport error, or a status and a body
Responses(bodies) ==
    {[error |-> TRUE, status |-> 0, json |-> EmptyDict]}
    \cup [error : {FALSE}, status : Statuses, json : bodies]

\* ClientResponse.raise_for_status
raise_for_status(status) == status >= 400

\* the request did not deliver a body: session.get raised, or
\* raise_for_status did
RequestFailed(r) == r.error \/ raise_for_status(r.status)


\* ------------------------------------------------------------------------
\* Bounds of the model

\* the clock runs from 0 to MaxTime minutes
MaxTime == 2

\* ------------------------------------------------------------------------
\* State

VARIABLES
    phase,             \* config entry: "no_entry" (the wizard has not
                       \* finished), "created", "setup" (async_setup_entry
                       \* awaits the first refresh), "loaded", "not_ready",
                       \* "unloaded" (reload in progress)
    entry_options,     \* entry.options[CONF_WALLET]
    currency,          \* entry.data[CONF_CURRENCY], coordinator.currency
    entities,          \* wallet types that have a BitpandaWalletSensor
    selected_wallets,  \* coordinator.selected_wallets
    ticker_data,       \* coordinator.ticker_data
    next_update,       \* coordinator.next_update
    coordinator_data,  \* coordinator.data, what the sensors read; None is
                       \* the empty dict (the code tests only its truth)
    pc,                \* where the running _async_update_data awaits:
                       \* "idle", "ticker", "asset_wallets", "fiatwallets",
                       \* "return" (between line 117 and the finally block)
    data,              \* the local dict `data` of the running execution
    now,               \* dt_util.utcnow()
    outcome,           \* how the last execution ended: "none", "returned",
                       \* "UpdateFailed", "cancelled"
    inflight,          \* executions of _async_update_data of the current
                       \* coordinator that have started and not ended
    generation,        \* history: the mark of the running (or last)
                       \* execution, 0 or 1; an execution takes the mark
                       \* that the entries of coordinator.data do not carry
    requests,          \* endpoints requested by the current/last execution
    at_begin,          \* coordinator attributes when the running execution
                       \* began (empty when none runs)
    raw,               \* input of the normalizers (normalizer runs only)
    parsed,            \* their results (normalizer runs only)
    handler,           \* the flow in progress: "none", "config"
                       \* (BitpandaWalletsConfigFlow), "options"
                       \* (BitpandaWalletsOptionsFlow)
    step_id,           \* the form the flow shows: "user", "wallets"; "none"
                       \* before a flow, "create_entry" when it has finished
    errors,            \* errors["base"] of the form shown, "" when errors = {}
    flow_currency,     \* self._currency of the flow
    flow_wallets,      \* self._wallets of the options flow
    logged             \* what _test_api_key last passed to _LOGGER.error

coordinator_vars ==
    <<phase, entry_options, currency, entities, selected_wallets, ticker_data,
      next_update, coordinator_data, pc, data, now, outcome, inflight, generation,
      requests, at_begin>>

flow_vars == <<handler, step_id, errors, flow_currency, flow_wallets, logged>>

vars == <<coordinator_vars, raw, parsed, flow_vars>>

asset_types ==
    {"STOCK", "INDEX", "METAL", "CRYPTOCOIN", "LEVERAGE", "ETF", "ETC"}

\* variant: every asset wallet type is processed, selected or not
selected_asset_types_all(selected) == asset_types

\* selected_asset_types = set(self.selected_wallets) & asset_types
selected_asset_types(selected) == selected \cap asset_types

Selections == (SUBSET WALLET_TYPES) \ {{}}

NoExecution == EmptyDict

\* no flow is in progress
FlowAtRest ==
    /\ handler = "none"
    /\ step_id = "none"
    /\ errors = ""
    /\ flow_currency = ""
    /\ flow_wallets = {}
    /\ logged = ""

\* the config entry as the config flow creates it: any non-empty selection,
\* the default currency; no coordinator yet
Init ==
    /\ phase = "created"
    /\ entry_options \in Selections
    /\ currency = DEFAULT_FIAT_CURRENCY
    /\ entities = {}
    /\ selected_wallets = {}
    /\ ticker_data = EmptyDict
    /\ next_update = 0
    /\ coordinator_data = EmptyDict
    /\ pc = "idle"
    /\ data = EmptyDict
    /\ now = 0
    /\ outcome = "none"
    /\ inflight = 0
    /\ generation = 0
    /\ requests = <<>>
    /\ at_begin = NoExecution
    /\ raw = EmptyDict
    /\ parsed = EmptyDict
    /\ FlowAtRest

\* ------------------------------------------------------------------------
\* _async_update_data, piece by piece

\* lines 98-102: the entry of an asset wallet type
asset_entry(result) ==
    [total_balance |-> result.total_balance, wallets |-> result.wallets_info]

\* lines 113-114: the entry of FIAT, which never lists wallets
fiat_entry(fiat_balance) ==
    [total_balance |-> fiat_balance, wallets |-> <<>>]

\* an entry with the mark of the execution that computed it (a history
\* field of the model, not a key of the dict)
Tagged(entry, n) == entry @@ [generation |-> n]

\* the wallet types of a dict `data`
Categories(d) == DOMAIN d \ {"last_updated"}

\* the mark an execution takes when coordinator.data is d
FreshGeneration(d) ==
    IF \E wallet_type \in Categories(d) : d[wallet_type].generation = 0
    THEN 1 ELSE 0

\* entry of _async_update_data up to the await of the ticker request
\* (lines 66-74); `d` and `t` are coordinator.data and .ticker_data then
BeginUpdate(d, t) ==
    /\ pc' = "ticker"
    /\ data' = EmptyDict
    /\ requests' = <<"ticker">>
    /\ generation' = FreshGeneration(d)
    /\ inflight' = inflight + 1
    /\ at_begin' = [data |-> d, ticker_data |-> t,
                     selected_wallets |-> selected_wallets, currency |-> currency]

\* lines 116-118: the time stamp; the finally block and the return follow
\* without an await, but with a second reading of the clock
Stamp(d) ==
    /\ data' = d @@ ("last_updated" :> now)
    /\ pc' = "return"
    /\ requests' = requests

\* variant: the fiatwallets request is issued whatever is selected
AfterAssets_AlwaysFiat(d) ==
    /\ data' = d
    /\ pc' = "fiatwallets"
    /\ requests' = Append(requests, "fiatwallets")

\* lines 104-107, reached with the local dict d
AfterAssets(d) ==
    IF "FIAT" \in selected_wallets
    THEN /\ data' = d
         /\ pc' = "fiatwallets"
         /\ requests' = Append(requests, "fiatwallets")
    ELSE Stamp(d)

\* lines 83-89, reached when the ticker has been stored
AfterTicker ==
    IF selected_asset_types(selected_wallets) # {}
    THEN /\ data' = data
         /\ pc' = "asset_wallets"
         /\ requests' = Append(requests, "asset-wallets")
    ELSE AfterAssets(data)

\* variant: async_setup_entry registers the sensors of the selection
\* without looking at the first refresh
SetupContinues_NoCheck(d, failed) ==
    IF phase # "setup"
    THEN UNCHANGED <<phase, entities>>
    ELSE /\ phase' = "loaded"
         /\ entities' = selected_wallets

\* what async_setup_entry does once the first refresh is over (lines 26-41):
\* ConfigEntryNotReady when it failed or left no data, else one sensor per
\* selected wallet type found in the data
SetupContinues(d, failed) ==
    IF phase # "setup"
    THEN UNCHANGED <<phase, entities>>
    ELSE IF failed \/ d = EmptyDict
    THEN /\ phase' = "not_ready"
         /\ entities' = entities
    ELSE /\ phase' = "loaded"
         /\ entities' = {wallet_type \in selected_wallets : wallet_type \in DOMAIN d}

\* variant: the failing execution leaves what it had built in
\* coordinator.data
UpdateFailed_PartialData ==
    /\ next_update' = now + UPDATE_INTERVAL
    /\ coordinator_data' = data @@ coordinator_data
    /\ outcome' = "UpdateFailed"
    /\ pc' = "idle"
    /\ inflight' = inflight - 1
    /\ at_begin' = NoExecution
    /\ data' = EmptyDict
    /\ requests' = requests
    /\ SetupContinues(coordinator_data, TRUE)

\* variant: next_update is set on the successful path only
UpdateFailed_NoFinally ==
    /\ next_update' = next_update
    /\ coordinator_data' = coordinator_data
    /\ outcome' = "UpdateFailed"
    /\ pc' = "idle"
    /\ inflight' = inflight - 1
    /\ at_begin' = NoExecution
    /\ data' = EmptyDict
    /\ requests' = requests
    /\ SetupContinues(coordinator_data, TRUE)

\* variant: the except clause does not catch the error, which leaves the
\* routine as it was raised
UpdateFailed_NotCaught ==
    /\ next_update' = now + UPDATE_INTERVAL
    /\ coordinator_data' = coordinator_data
    /\ outcome' = "ClientError"
    /\ pc' = "idle"
    /\ inflight' = inflight - 1
    /\ at_begin' = NoExecution
    /\ data' = EmptyDict
    /\ requests' = requests
    /\ SetupContinues(coordinator_data, TRUE)

\* lines 120-125: except Exception -> UpdateFailed, then the finally block;
\* DataUpdateCoordinator keeps coordinator.data
UpdateFailed ==
    /\ next_update' = now + UPDATE_INTERVAL
    /\ coordinator_data' = coordinator_data
    /\ outcome' = "UpdateFailed"
    /\ pc' = "idle"
    /\ inflight' = inflight - 1
    /\ at_begin' = NoExecution
    /\ data' = EmptyDict
    /\ requests' = requests
    /\ SetupContinues(coordinator_data, TRUE)

\* async_setup_entry (lines 20-26): a new coordinator (__init__, lines
\* 50-62) and its first refresh
SetupEntry ==
    /\ phase \in {"created", "not_ready", "unloaded"}
    /\ phase' = "setup"
    /\ selected_wallets' = entry_options
    /\ ticker_data' = EmptyDict
    /\ next_update' = now + UPDATE_INTERVAL
    /\ coordinator_data' = EmptyDict
    /\ inflight' = 1
    /\ pc' = "ticker"
    /\ data' = EmptyDict
    /\ requests' = <<"ticker">>
    /\ generation' = 0
    /\ at_begin' = [data |-> EmptyDict, ticker_data |-> EmptyDict,
                     selected_wallets |-> entry_options, currency |-> currency]
    /\ outcome' = "none"
    /\ UNCHANGED <<entry_options, currency, entities, now, raw, parsed, flow_vars>>

\* the refresh timer of the host's DataUpdateCoordinator, armed by the
\* update_interval handed to super().__init__ (lines 51-56). The coordinator
\* of this repository has no lock of its own; that the timer fires on an
\* idle coordinator only is the host's part ("the scheduling host is
\* expected to serialize ticks"), taken here as given
TimerTick ==
    /\ phase = "loaded"
    /\ pc = "idle"
    /\ BeginUpdate(coordinator_data, ticker_data)
    /\ UNCHANGED <<phase, entry_options, currency, entities, selected_wallets,
                   ticker_data, next_update, coordinator_data, now, outcome,
                   raw, parsed, flow_vars>>

\* variant: a failed ticker request is passed over and the execution goes
\* on with the table it has
TickerResponse_ContinuesOnFailure(r) ==
    /\ pc = "ticker"
    /\ ticker_data' = IF RequestFailed(r) THEN ticker_data ELSE r.json
    /\ AfterTicker
    /\ UNCHANGED <<phase, entities, next_update, coordinator_data,
                   outcome, inflight, at_begin>>
    /\ UNCHANGED <<entry_options, currency, selected_wallets, now, generation,
                   raw, parsed, flow_vars>>

\* variant: the fetched table is not stored in the coordinator
TickerResponse_NotStored(r) ==
    /\ pc = "ticker"
    /\ IF RequestFailed(r)
       THEN UpdateFailed /\ UNCHANGED ticker_data
       ELSE /\ ticker_data' = ticker_data
            /\ AfterTicker
            /\ UNCHANGED <<phase, entities, next_update, coordinator_data,
                           outcome, inflight, at_begin>>
    /\ UNCHANGED <<entry_options, currency, selected_wallets, now, generation,
                   raw, parsed, flow_vars>>

\* lines 74-81 and what follows without an await
TickerResponse(r) ==
    /\ pc = "ticker"
    /\ IF RequestFailed(r)
       THEN UpdateFailed /\ UNCHANGED ticker_data
       ELSE /\ ticker_data' = r.json
            /\ AfterTicker
            /\ UNCHANGED <<phase, entities, next_update, coordinator_data,
                           outcome, inflight, at_begin>>
    /\ UNCHANGED <<entry_options, currency, selected_wallets, now, generation,
                   raw, parsed, flow_vars>>

\* variant: the asset entries are written to coordinator.data as soon as
\* they are computed
AssetWalletsResponse_PublishEarly(r) ==
    /\ pc = "asset_wallets"
    /\ LET results == [wallet_type \in selected_asset_types(selected_wallets) |->
                          parse_asset_type(r.json, wallet_type, ticker_data, currency)]
           merged == [wallet_type \in DOMAIN results |->
                          Tagged(asset_entry(results[wallet_type]), generation)] @@ data
       IN  IF RequestFailed(r) \/ \E wallet_type \in DOMAIN results :
                                      results[wallet_type].raised
           THEN UpdateFailed
           ELSE /\ AfterAssets(merged)
                /\ coordinator_data' = merged @@ coordinator_data
                /\ UNCHANGED <<phase, entities, next_update,
                               outcome, inflight, at_begin>>
    /\ UNCHANGED <<entry_options, currency, selected_wallets, ticker_data, now,
                   generation, raw, parsed, flow_vars>>

\* lines 89-102 and what follows without an await
AssetWalletsResponse(r) ==
    /\ pc = "asset_wallets"
    /\ LET results == [wallet_type \in selected_asset_types(selected_wallets) |->
                          parse_asset_type(r.json, wallet_type, ticker_data, currency)]
           merged == [wallet_type \in DOMAIN results |->
                          Tagged(asset_entry(results[wallet_type]), generation)] @@ data
       IN  IF RequestFailed(r) \/ \E wallet_type \in DOMAIN results :
                                      results[wallet_type].raised
           THEN UpdateFailed
           ELSE /\ AfterAssets(merged)
                /\ UNCHANGED <<phase, entities, next_update, coordinator_data,
                               outcome, inflight, at_begin>>
    /\ UNCHANGED <<entry_options, currency, selected_wallets, ticker_data, now,
                   generation, raw, parsed, flow_vars>>

\* lines 107-118
FiatWalletsResponse(r) ==
    /\ pc = "fiatwallets"
    /\ LET fiat_balance == parse_fiat_wallet(r.json, currency)
       IN  IF RequestFailed(r) \/ fiat_balance.raised
           THEN UpdateFailed
           ELSE /\ Stamp(("FIAT" :> Tagged(fiat_entry(fiat_balance.balance), generation))
                      @@ data)
                /\ UNCHANGED <<phase, entities, next_update, coordinator_data,
                               outcome, inflight, at_begin>>
    /\ UNCHANGED <<entry_options, currency, selected_wallets, ticker_data, now,
                   generation, raw, parsed, flow_vars>>

\* variant: next_update is set by __init__ only
Return_NoFinally ==
    /\ pc = "return"
    /\ next_update' = next_update
    /\ coordinator_data' = data
    /\ outcome' = "returned"
    /\ pc' = "idle"
    /\ inflight' = inflight - 1
    /\ at_begin' = NoExecution
    /\ SetupContinues(data, FALSE)
    /\ data' = EmptyDict
    /\ UNCHANGED <<entry_options, currency, selected_wallets, ticker_data, now,
                   generation, requests, raw, parsed, flow_vars>>

\* the finally block (lines 123-125), the return of line 118, and
\* DataUpdateCoordinator storing the returned dict as coordinator.data
Return ==
    /\ pc = "return"
    /\ next_update' = now + UPDATE_INTERVAL
    /\ coordinator_data' = data
    /\ outcome' = "returned"
    /\ pc' = "idle"
    /\ inflight' = inflight - 1
    /\ at_begin' = NoExecution
    /\ SetupContinues(data, FALSE)
    /\ data' = EmptyDict
    /\ UNCHANGED <<entry_options, currency, selected_wallets, ticker_data, now,
                   generation, requests, raw, parsed, flow_vars>>

\* time passes
AdvanceClock ==
    /\ now < MaxTime
    /\ now' = now + 1
    /\ UNCHANGED <<phase, entry_options, currency, entities, selected_wallets,
                   ticker_data, next_update, coordinator_data, pc, data,
                   outcome, inflight, generation, requests, at_begin, raw, parsed, flow_vars>>

\* variant: the listener asks the coordinator at hand for a refresh with the
\* new selection instead of reloading the entry
async_update_listener_refresh(selected) ==
    /\ phase = "loaded"
    /\ pc # "return"
    /\ entry_options' = selected
    /\ selected_wallets' = selected
    /\ BeginUpdate(coordinator_data, ticker_data)
    /\ UNCHANGED <<phase, currency, entities, ticker_data, next_update,
                   coordinator_data, now, outcome, raw, parsed, flow_vars>>

\* variant: the listener registers the sensors of the new selection at once
async_update_listener_expose(selected) ==
    /\ phase = "loaded"
    /\ pc # "return"
    /\ entry_options' = selected
    /\ phase' = "unloaded"
    /\ entities' = selected
    /\ IF pc = "idle"
       THEN UNCHANGED <<next_update, outcome, inflight, pc>>
       ELSE /\ next_update' = now + UPDATE_INTERVAL
            /\ outcome' = "cancelled"
            /\ inflight' = inflight - 1
            /\ pc' = "idle"
    /\ at_begin' = NoExecution
    /\ data' = EmptyDict
    /\ UNCHANGED <<currency, selected_wallets, ticker_data, coordinator_data,
                   now, generation, requests, raw, parsed, flow_vars>>

\* the options flow stores a new selection and async_update_listener (lines
\* 43-45) reloads the entry: the sensors are removed and a running
\* execution is cancelled (CancelledError passes `except Exception`, the
\* finally block runs); SetupEntry then builds the new coordinator
async_update_listener(selected) ==
    /\ phase = "loaded"
    /\ pc # "return"
    /\ entry_options' = selected
    /\ phase' = "unloaded"
    /\ entities' = {}
    /\ IF pc = "idle"
       THEN UNCHANGED <<next_update, outcome, inflight, pc>>
       ELSE /\ next_update' = now + UPDATE_INTERVAL
            /\ outcome' = "cancelled"
            /\ inflight' = inflight - 1
            /\ pc' = "idle"
    /\ at_begin' = NoExecution
    /\ data' = EmptyDict
    /\ UNCHANGED <<currency, selected_wallets, ticker_data, coordinator_data,
                   now, generation, requests, raw, parsed, flow_vars>>

\* selections the options flow is given in this model
OptionChoices == {{"FIAT"}, {"FIAT", "STOCK"}, {"CRYPTOCOIN", "LEVERAGE"}}

Next ==
    \/ SetupEntry
    \/ TimerTick
    \/ \E r \in Responses(TickerBodies) : TickerResponse(r)
    \/ \E r \in Responses(AssetBodies) : AssetWalletsResponse(r)
    \/ \E r \in Responses(FiatBodies) : FiatWalletsResponse(r)
    \/ Return
    \/ AdvanceClock
    \/ \E selected \in OptionChoices : async_update_listener(selected)

Spec == Init /\ [][Next]_vars


\* ------------------------------------------------------------------------
\* The normalizers on their own: one raw response, normalized once

\* wallets per raw response in the normalizer runs
MaxWallets == 3

BoundedSeq(S, n) == UNION {[1..k -> S] : k \in 0..n}

FiatWalletShapes ==
    {FiatWallet("EUR", NumStr(123450)),
     FiatWallet("EUR", Num(777)),
     FiatWallet("USD", NumStr(5000)),
     FiatWallet("EUR", BadStr),
     FiatWallet("USD", BadStr),
     FiatWallet("EUR", NumStr(-500)),
     [attributes |-> [fiat_symbol |-> "EUR"]],
     [attributes |-> [balance |-> Num(42)]],
     EmptyDict}

CryptoWalletShapes ==
    {Wallet("Bitcoin", BTC, NumStr(2)),
     Wallet("BTC 2x Long", BTC2L, NumStr(3)),
     Wallet("ETH 1x Short", ETH1S, Num(1)),
     Wallet("Empty", BTC2L, NumStr(0)),
     Wallet("Owed", BTC, Num(-1)),
     Wallet("Broken", ETH1S, BadStr),
     [attributes |-> [name |-> "No balance", cryptocoin_symbol |-> BTC]],
     [attributes |-> [balance |-> Num(1)]],
     EmptyDict}

\* a response that holds the wallets in its cryptocoin list and, as stock
\* wallets, under the grouping key 'security'
CryptoResponse(wallets) ==
    [data |-> [attributes |-> [cryptocoin |-> Group(wallets),
                               security |-> [stock |-> Group(wallets)]]]]

\* responses that lack a level of the nesting, and the two full ones
AssetShapes ==
    {EmptyDict,
     [data |-> EmptyDict],
     [data |-> [attributes |-> EmptyDict]],
     [data |-> [attributes |-> [cryptocoin |-> EmptyDict, stock |-> EmptyDict]]],
     [data |-> [attributes |-> [cryptocoin |-> [attributes |-> EmptyDict]]]],
     AssetA, AssetB}

\* the grouping keys `_parse_asset_type` looks under, in its order
GroupingKeys == <<"security", "commodity", "index">>

Paths == {"flat", "security", "commodity", "index"}

\* one wallet per place of a response, named after the place
PathWallet(path) ==
    Wallet(path, AAPL,
           NumStr(CASE path = "flat" -> 1 [] path = "security" -> 2
                    [] path = "commodity" -> 3 [] path = "index" -> 4))

\* data.attributes of a response that holds a wallet group of `category`
\* at every place of `paths`: under the flat key, and under the grouping
\* keys (for category 'index' the flat key and the grouping key 'index' are
\* the same key of data.attributes)
PathAttributes(category, paths) ==
    [k \in (IF "flat" \in paths THEN {category} ELSE {})
            \cup (paths \ {"flat"}) |->
        (IF k = category /\ "flat" \in paths
         THEN Group(<<PathWallet("flat")>>) ELSE EmptyDict)
        @@ (IF k \in paths \ {"flat"}
            THEN (category :> Group(<<PathWallet(k)>>)) ELSE EmptyDict)]

\* the responses for the wallet types that are looked up by key
PathShapes ==
    {[data |-> [attributes |-> PathAttributes(category, paths)]] :
        category \in {"index", "stock", "etf", "etc", "metal"},
        paths \in SUBSET Paths}

TickerInputs == {TickerA, TickerB, EmptyDict}

NormalizerInputs ==
    {[kind |-> "fiat", fiat_json |-> j, currency |-> c] :
        j \in {EmptyDict} \cup {[data |-> w] : w \in BoundedSeq(FiatWalletShapes, MaxWallets)},
        c \in FIAT_CURRENCIES}
    \cup
    {[kind |-> "crypto", json |-> CryptoResponse(w), ticker_data |-> t, currency |-> c] :
        w \in BoundedSeq(CryptoWalletShapes, MaxWallets),
        t \in TickerInputs, c \in FIAT_CURRENCIES}
    \cup
    {[kind |-> "asset", json |-> j, ticker_data |-> t, currency |-> c] :
        j \in AssetShapes \cup PathShapes, t \in TickerInputs, c \in FIAT_CURRENCIES}

InitNormalizer ==
    /\ phase = "created"
    /\ entry_options = WALLET_TYPES
    /\ currency = DEFAULT_FIAT_CURRENCY
    /\ entities = {}
    /\ selected_wallets = {}
    /\ ticker_data = EmptyDict
    /\ next_update = 0
    /\ coordinator_data = EmptyDict
    /\ pc = "idle"
    /\ data = EmptyDict
    /\ now = 0
    /\ outcome = "none"
    /\ inflight = 0
    /\ generation = 0
    /\ requests = <<>>
    /\ at_begin = NoExecution
    /\ raw \in NormalizerInputs
    /\ parsed = EmptyDict
    /\ FlowAtRest

\* _parse_fiat_wallet and the entry built from it (lines 113-114)
NormalizeFiat ==
    /\ raw.kind = "fiat"
    /\ parsed = EmptyDict
    /\ LET fiat_balance == parse_fiat_wallet(raw.fiat_json, raw.currency)
       IN  parsed' = [FIAT |-> [raised |-> fiat_balance.raised,
                                entry |-> fiat_entry(fiat_balance.balance)]]
    /\ UNCHANGED <<coordinator_vars, raw, flow_vars>>

\* _parse_asset_type for every asset wallet type, as the loop of lines
\* 97-102 calls it
NormalizeAssets ==
    /\ raw.kind \in {"crypto", "asset"}
    /\ parsed = EmptyDict
    /\ parsed' = [wallet_type \in asset_types |->
                     LET result == parse_asset_type(raw.json, wallet_type,
                                                    raw.ticker_data, raw.currency)
                     IN  [raised |-> result.raised, entry |-> asset_entry(result)]]
    /\ UNCHANGED <<coordinator_vars, raw, flow_vars>>

NextNormalizer == NormalizeFiat \/ NormalizeAssets

SpecNormalizer == InitNormalizer /\ [][NextNormalizer]_vars


\* ------------------------------------------------------------------------
\* config_flow.py: the setup wizard and the options flow

\* a body of /asset-wallets without the key 'data'
ErrorBody == [errors |-> <<"unexpected">>]

TestBodies == {AssetA, ErrorBody}

\* _test_api_key (lines 18-45): True only for status 200 and a body with
\* 'data'; every other outcome is logged and answered with False
test_api_key(r) ==
    IF r.error
    THEN [ok |-> FALSE, logged |-> "API key validation error"]
    ELSE IF r.status = 200
    THEN IF "data" \in DOMAIN r.json
         THEN [ok |-> TRUE, logged |-> ""]
         ELSE [ok |-> FALSE, logged |-> "Unexpected response data"]
    ELSE IF r.status = 401
    THEN [ok |-> FALSE, logged |-> "Unauthorized access - Invalid API key."]
    ELSE [ok |-> FALSE, logged |-> "Unexpected response status"]

\* what the user can submit to the first form: nothing, or a key (not
\* modelled further) and a currency
UserInputs == {EmptyDict} \cup {[currency |-> c] : c \in FIAT_CURRENCIES}

\* what the user can submit to the wallets form: nothing, or a selection,
\* which may be empty
WalletInputs == {EmptyDict} \cup {[wallet |-> selected] : selected \in SUBSET WALLET_TYPES}

InitConfigFlow ==
    /\ phase = "no_entry"
    /\ entry_options = {}
    /\ currency = ""
    /\ entities = {}
    /\ selected_wallets = {}
    /\ ticker_data = EmptyDict
    /\ next_update = 0
    /\ coordinator_data = EmptyDict
    /\ pc = "idle"
    /\ data = EmptyDict
    /\ now = 0
    /\ outcome = "none"
    /\ inflight = 0
    /\ generation = 0
    /\ requests = <<>>
    /\ at_begin = NoExecution
    /\ raw = EmptyDict
    /\ parsed = EmptyDict
    /\ FlowAtRest

\* variables no step of a flow touches
flow_frame ==
    <<entities, selected_wallets, ticker_data, next_update, coordinator_data,
      pc, data, now, outcome, inflight, generation, requests, at_begin,
      raw, parsed>>

\* the user opens the wizard: async_step_user(None) shows the first form
\* (lines 57-58, 68-77)
StartConfigFlow ==
    /\ phase = "no_entry"
    /\ handler = "none"
    /\ handler' = "config"
    /\ step_id' = "user"
    /\ errors' = ""
    /\ UNCHANGED <<phase, entry_options, currency, flow_currency, flow_wallets,
                   logged, flow_frame>>

\* BitpandaWalletsConfigFlow.async_step_user (lines 55-77) with a
\* submission; r is the answer to the request of _test_api_key. On success
\* it goes on to async_step_wallets(None), which shows the wallets form
async_step_user(user_input, r) ==
    /\ handler = "config"
    /\ step_id = "user"
    /\ IF user_input = EmptyDict
       THEN /\ step_id' = "user"
            /\ errors' = ""
            /\ UNCHANGED <<flow_currency, logged>>
       ELSE LET result == test_api_key(r)
            IN  /\ logged' = result.logged
                /\ IF result.ok
                   THEN /\ flow_currency' = user_input.currency
                        /\ step_id' = "wallets"
                        /\ errors' = ""
                   ELSE /\ flow_currency' = flow_currency
                        /\ step_id' = "user"
                        /\ errors' = "invalid_api_key"
    /\ UNCHANGED <<phase, entry_options, currency, handler, flow_wallets,
                   flow_frame>>

\* variant: any submission of the wallets form creates the entry
async_step_wallets_any_submission(user_input) ==
    /\ handler = "config"
    /\ step_id = "wallets"
    /\ IF user_input # EmptyDict
       THEN /\ phase' = "created"
            /\ entry_options' = user_input.wallet
            /\ currency' = flow_currency
            /\ handler' = "none"
            /\ step_id' = "create_entry"
            /\ errors' = ""
       ELSE /\ errors' = ""
            /\ step_id' = "wallets"
            /\ UNCHANGED <<phase, entry_options, currency, handler>>
    /\ UNCHANGED <<flow_currency, flow_wallets, logged, flow_frame>>

\* BitpandaWalletsConfigFlow.async_step_wallets (lines 79-136) with a
\* submission
async_step_wallets(user_input) ==
    /\ handler = "config"
    /\ step_id = "wallets"
    /\ IF user_input # EmptyDict /\ Get(user_input, "wallet", {}) # {}
       THEN /\ phase' = "created"
            /\ entry_options' = user_input.wallet
            /\ currency' = flow_currency
            /\ handler' = "none"
            /\ step_id' = "create_entry"
            /\ errors' = ""
       ELSE /\ errors' = IF user_input # EmptyDict
                          THEN "no_wallets_selected" ELSE ""
            /\ step_id' = "wallets"
            /\ UNCHANGED <<phase, entry_options, currency, handler>>
    /\ UNCHANGED <<flow_currency, flow_wallets, logged, flow_frame>>

\* BitpandaWalletsOptionsFlow.async_step_init (lines 147-153), which goes
\* on to async_step_wallets(None)
async_step_init ==
    /\ phase = "created"
    /\ handler = "none"
    /\ handler' = "options"
    /\ flow_currency' = currency
    /\ flow_wallets' = entry_options
    /\ step_id' = "wallets"
    /\ errors' = ""
    /\ UNCHANGED <<phase, entry_options, currency, logged, flow_frame>>

\* BitpandaWalletsOptionsFlow.async_step_wallets (lines 155-209) with a
\* submission; async_create_entry of an options flow stores the options
options_async_step_wallets(user_input) ==
    /\ handler = "options"
    /\ step_id = "wallets"
    /\ IF user_input # EmptyDict /\ Get(user_input, "wallet", {}) # {}
       THEN /\ flow_wallets' = user_input.wallet
            /\ entry_options' = user_input.wallet
            /\ handler' = "none"
            /\ step_id' = "create_entry"
            /\ errors' = ""
       ELSE /\ errors' = IF user_input # EmptyDict
                          THEN "no_wallets_selected" ELSE ""
            /\ step_id' = "wallets"
            /\ UNCHANGED <<entry_options, handler, flow_wallets>>
    /\ UNCHANGED <<phase, currency, flow_currency, logged, flow_frame>>

NextConfigFlow ==
    \/ StartConfigFlow
    \/ \E user_input \in UserInputs, r \in Responses(TestBodies) :
           async_step_user(user_input, r)
    \/ \E user_input \in WalletInputs : async_step_wallets(user_input)
    \/ async_step_init
    \/ \E user_input \in WalletInputs : options_async_step_wallets(user_input)

SpecConfigFlow == InitConfigFlow /\ [][NextConfigFlow]_vars


\* ------------------------------------------------------------------------
\* Properties of the coordinator (checked under Spec)

\* a step in which the request just awaited fails: a transport error or a
\* status that raise_for_status rejects
TickerRequestFails ==
    \E r \in Responses(TickerBodies) : RequestFailed(r) /\ TickerResponse(r)

AssetRequestFails ==
    \E r \in Responses(AssetBodies) : RequestFailed(r) /\ AssetWalletsResponse(r)

FiatRequestFails ==
    \E r \in Responses(FiatBodies) : RequestFailed(r) /\ FiatWalletsResponse(r)

\* a step in which the request just awaited delivers a body with a
\* success status
RequestSucceeds ==
    \/ \E r \in Responses(TickerBodies) : ~RequestFailed(r) /\ TickerResponse(r)
    \/ \E r \in Responses(AssetBodies) : ~RequestFailed(r) /\ AssetWalletsResponse(r)
    \/ \E r \in Responses(FiatBodies) : ~RequestFailed(r) /\ FiatWalletsResponse(r)

\* an execution has ended by returning or by raising UpdateFailed and none
\* has started since
CycleCompleted == pc = "idle" /\ outcome \in {"returned", "UpdateFailed"}

\* C1 (as stated): when an execution fails at the asset-wallets or the
\* fiatwallets request and a snapshot had been published before, the
\* published snapshot is the one of before and, of the coordinator's
\* attributes, only next_update has changed since the execution began.
C1_OnlyNextUpdateChanges ==
    [][((AssetRequestFails \/ FiatRequestFails) /\ at_begin.data # EmptyDict)
         => /\ coordinator_data' = at_begin.data
            /\ ticker_data' = at_begin.ticker_data
            /\ selected_wallets' = at_begin.selected_wallets
            /\ currency' = at_begin.currency
            /\ next_update' = now' + UPDATE_INTERVAL]_vars

\* C1 (amended): when an execution fails at the asset-wallets or the
\* fiatwallets request and a snapshot had been published before, the
\* published snapshot (every entry and last_updated) is the one of before;
\* selected_wallets and currency are unchanged and next_update is the time of
\* the failure plus the interval. ticker_data is left out: it is the table
\* fetched by the failed execution.
C1_SnapshotKept ==
    [][((AssetRequestFails \/ FiatRequestFails) /\ at_begin.data # EmptyDict)
         => /\ coordinator_data' = at_begin.data
            /\ selected_wallets' = at_begin.selected_wallets
            /\ currency' = at_begin.currency
            /\ next_update' = now' + UPDATE_INTERVAL]_vars

\* C1 witness: an execution that began with a published snapshot has failed
\* after its ticker request, at a later time than the snapshot was taken.
C1_Witness ==
    /\ CycleCompleted
    /\ outcome = "UpdateFailed"
    /\ Len(requests) >= 2
    /\ coordinator_data # EmptyDict
    /\ coordinator_data["last_updated"] < now

\* C2: in every state the published snapshot is empty (None) or the whole
\* result of one finished execution: it has a time stamp, an entry for each
\* selected wallet type and no other, all entries carry the same mark, and
\* that mark is not the mark of an execution still running.
C2_SnapshotAtomic ==
    coordinator_data # EmptyDict =>
        /\ "last_updated" \in DOMAIN coordinator_data
        /\ Categories(coordinator_data) = selected_wallets
        /\ \A a, b \in Categories(coordinator_data) :
               coordinator_data[a].generation = coordinator_data[b].generation
        /\ pc # "idle" =>
               \A a \in Categories(coordinator_data) :
                   coordinator_data[a].generation # generation

\* C2 witness: a snapshot is published and a later execution has the asset
\* entries in its local dict while it waits for the fiatwallets response.
C2_Witness ==
    /\ pc = "fiatwallets"
    /\ Categories(data) # {}
    /\ coordinator_data # EmptyDict

\* C3: at most one execution of the update routine of the coordinator is
\* in flight, and one is in flight exactly when the coordinator is not idle.
C3_SingleFlight == inflight <= 1 /\ (inflight = 1 <=> pc # "idle")

\* C3 witness: a change of the selection arrived while an execution was in
\* flight; the execution was cancelled with the old coordinator.
C3_Witness == outcome = "cancelled" /\ phase = "unloaded" /\ inflight = 0

\* C4: a step that ends an execution, by the return or by UpdateFailed,
\* sets next_update to the time of that step plus the interval.
C4_NextUpdateAtEnd ==
    [][(pc # "idle" /\ pc' = "idle" /\ outcome' \in {"returned", "UpdateFailed"})
         => next_update' = now' + UPDATE_INTERVAL]_vars

\* C4 witness: an execution failed after the clock had advanced past the
\* construction of the coordinator.
C4_Witness ==
    /\ CycleCompleted
    /\ outcome = "UpdateFailed"
    /\ now > 0
    /\ next_update = now + UPDATE_INTERVAL

\* C5 (as stated): after every completed execution next_update is
\* last_updated of the published snapshot plus the interval.
C5_NextUpdateIsFetchedPlusInterval ==
    (CycleCompleted /\ coordinator_data # EmptyDict)
        => next_update = coordinator_data["last_updated"] + UPDATE_INTERVAL

\* C5 (amended): after every completed execution next_update is at least
\* last_updated of the published snapshot plus the interval, and at most the
\* present time plus the interval.
C5_NextUpdateAtLeastFetchedPlusInterval ==
    (CycleCompleted /\ coordinator_data # EmptyDict)
        => /\ next_update >= coordinator_data["last_updated"] + UPDATE_INTERVAL
           /\ next_update <= now + UPDATE_INTERVAL

\* C5 witness: an execution has failed later than the published snapshot was
\* taken, so that next_update is past last_updated plus the interval.
C5_Witness ==
    /\ CycleCompleted
    /\ outcome = "UpdateFailed"
    /\ coordinator_data # EmptyDict
    /\ next_update > coordinator_data["last_updated"] + UPDATE_INTERVAL

\* C6: the wallet types of a published snapshot are exactly the selected
\* wallet types of the coordinator, for every non-empty selection.
C6_KeysAreSelection ==
    coordinator_data # EmptyDict =>
        Categories(coordinator_data) = selected_wallets

\* C6 witness: the selection {FIAT, STOCK} published with those two keys.
C6_Witness ==
    /\ selected_wallets = {"FIAT", "STOCK"}
    /\ Categories(coordinator_data) = {"FIAT", "STOCK"}

\* C7: a failing request, at any of the three steps, ends the execution in
\* that step: the outcome is UpdateFailed, no further request is issued,
\* the coordinator is idle with no execution in flight; and the timer tick
\* after a failure starts an execution with the ticker request and an
\* empty local dict.
C7_FailureAbortsCycle ==
    [][/\ (TickerRequestFails \/ AssetRequestFails \/ FiatRequestFails)
            => /\ outcome' = "UpdateFailed"
               /\ pc' = "idle"
               /\ inflight' = 0
               /\ requests' = requests
       /\ (TimerTick /\ outcome = "UpdateFailed")
            => /\ pc' = "ticker"
               /\ requests' = <<"ticker">>
               /\ data' = EmptyDict]_vars

\* C7 witness: after an execution that ended in UpdateFailed the timer has
\* started the next one, which waits for the ticker.
C7_Witness ==
    /\ phase = "loaded"
    /\ outcome = "UpdateFailed"
    /\ pc = "ticker"
    /\ requests = <<"ticker">>

\* C8 (as stated): a response with a success status never makes the
\* execution fail, whatever its fields hold.
C8_SuccessStatusNeverFails ==
    [][RequestSucceeds => outcome' # "UpdateFailed"]_vars

\* the first refresh of a new coordinator ends in this step
FirstRefreshEnds == phase = "setup" /\ pc # "idle" /\ pc' = "idle"

\* C16: when the first refresh of a new coordinator fails, setup ends as
\* not ready with no sensor and no snapshot; when it returns, the entry is
\* loaded with the sensors of the selection and the snapshot; and there is
\* no sensor in any state unless the entry is loaded and a snapshot is
\* published.
C16_NoSensorBeforeFirstSuccess ==
    [][/\ FirstRefreshEnds =>
              IF outcome' = "returned"
              THEN /\ phase' = "loaded"
                   /\ coordinator_data' # EmptyDict
                   /\ entities' = selected_wallets
              ELSE /\ outcome' = "UpdateFailed"
                   /\ phase' = "not_ready"
                   /\ entities' = {}
                   /\ coordinator_data' = EmptyDict
       /\ entities' # {} =>
              phase' = "loaded" /\ coordinator_data' # EmptyDict]_vars

\* C16 witness: the first refresh failed after its ticker request; setup
\* is not ready and nothing is registered or published.
C16_Witness ==
    /\ phase = "not_ready"
    /\ Len(requests) >= 2
    /\ entities = {}
    /\ coordinator_data = EmptyDict

\* the requests of a whole execution for a selection
ExpectedRequests(selected) ==
    <<"ticker">>
    \o (IF selected \cap (WALLET_TYPES \ {"FIAT"}) # {}
        THEN <<"asset-wallets">> ELSE <<>>)
    \o (IF "FIAT" \in selected THEN <<"fiatwallets">> ELSE <<>>)

\* a change of the selection arrives
SelectionChanges == \E selected \in OptionChoices : async_update_listener(selected)

\* C17: a change of the selection removes the sensors; a wallet type gets a
\* sensor only in the step in which an execution for the stored selection
\* returns after the ticker request and every request of that selection;
\* and every sensor's wallet type has an entry in the published snapshot.
C17_ExposedAfterFullCycle ==
    [][/\ SelectionChanges => entities' = {}
       /\ ~(entities' \subseteq entities) =>
              /\ outcome' = "returned"
              /\ selected_wallets' = entry_options'
              /\ requests' = ExpectedRequests(entry_options')
              /\ entities' \subseteq entry_options'
       /\ entities' \subseteq Categories(coordinator_data')]_vars

\* C17 witness: the selection was changed to wallet types the published
\* snapshot has no entry for; they have no sensor.
C17_Witness ==
    /\ phase = "unloaded"
    /\ coordinator_data # EmptyDict
    /\ ~(entry_options \subseteq Categories(coordinator_data))
    /\ entities = {}

\* C18: when the entry is torn down while an execution awaits one of its
\* requests, the execution ends as cancelled and coordinator.data is what
\* it was when the execution began; it stays so while that coordinator
\* exists.
C18_CancelledPublishesNothing ==
    [][/\ (SelectionChanges /\ pc # "idle") =>
              /\ outcome' = "cancelled"
              /\ pc' = "idle"
              /\ coordinator_data' = at_begin.data
       /\ (outcome = "cancelled" /\ outcome' = "cancelled") =>
              coordinator_data' = coordinator_data]_vars

\* C18 witness: an execution was cancelled while it awaited the fiatwallets
\* response, with asset entries in its local dict and a snapshot published.
C18_Witness ==
    /\ outcome = "cancelled"
    /\ requests = <<"ticker", "asset-wallets", "fiatwallets">>
    /\ coordinator_data # EmptyDict

\* a step in which the ticker request delivers a table, which is stored
TickerRequestSucceeds ==
    \E r \in Responses(TickerBodies) :
        ~RequestFailed(r) /\ TickerResponse(r) /\ ticker_data' = r.json

\* the asset entries of the local dict are computed from the body r.json
\* and the stored ticker table, one for every selected asset wallet type
AssetEntriesFrom(r) ==
    \A wallet_type \in selected_wallets \ {"FIAT"} :
        /\ wallet_type \in DOMAIN data'
        /\ data'[wallet_type] =
               Tagged(asset_entry(parse_asset_type(r.json, wallet_type,
                                                   ticker_data, currency)),
                      generation)

\* C19: a failing ticker request ends the execution with the ticker request
\* as its only request; the asset-wallets or the fiatwallets request is
\* first issued in a step in which the ticker request, or the asset-wallets
\* request after it, has succeeded; the stored table does not change while
\* the execution awaits those requests, and the asset entries are computed
\* with it.
C19_TickerFirst ==
    [][/\ TickerRequestFails =>
              /\ requests' = <<"ticker">>
              /\ pc' = "idle"
              /\ outcome' = "UpdateFailed"
       /\ (pc = "ticker" /\ pc' \in {"asset_wallets", "fiatwallets", "return"}) =>
              TickerRequestSucceeds
       /\ (pc' \in {"asset_wallets", "fiatwallets"} /\ pc' # pc) =>
              /\ pc \in {"ticker", "asset_wallets"}
              /\ requests[1] = "ticker"
              /\ Len(requests') = Len(requests) + 1
       /\ pc \in {"asset_wallets", "fiatwallets", "return"} =>
              ticker_data' = ticker_data
       /\ pc = "asset_wallets" =>
              \A r \in Responses(AssetBodies) :
                  (/\ ~RequestFailed(r)
                   /\ outcome' # "UpdateFailed"
                   /\ AssetWalletsResponse(r)) => AssetEntriesFrom(r)]_vars

\* C19 witness: the second execution of a coordinator awaits the
\* asset-wallets response with a table other than the one the first left.
C19_Witness ==
    /\ pc = "asset_wallets"
    /\ at_begin.data # EmptyDict
    /\ ticker_data # at_begin.ticker_data

Count(seq, x) == Cardinality({i \in 1..Len(seq) : seq[i] = x})

PrefixOf(a, b) == Len(a) <= Len(b) /\ SubSeq(b, 1, Len(a)) = a

\* C20: the requests of an execution are, in order, a prefix of: the ticker
\* request, one asset-wallets request when an asset wallet type is
\* selected, one fiatwallets request when FIAT is selected; an execution
\* that returns has issued them all; and the one asset-wallets body is the
\* input of the entry of every selected asset wallet type.
C20_OneAssetRequest ==
    [][/\ PrefixOf(requests', ExpectedRequests(selected_wallets'))
       /\ Count(requests', "asset-wallets") <= 1
       /\ Count(requests', "fiatwallets") <= 1
       /\ pc' = "return" => requests' = ExpectedRequests(selected_wallets')
       /\ pc' = "fiatwallets" => "FIAT" \in selected_wallets'
       /\ pc = "asset_wallets" =>
              \A r \in Responses(AssetBodies) :
                  (/\ ~RequestFailed(r)
                   /\ outcome' # "UpdateFailed"
                   /\ AssetWalletsResponse(r)) => AssetEntriesFrom(r)]_vars

\* C20 witness: an execution for CRYPTOCOIN and LEVERAGE has returned after
\* the ticker request and one asset-wallets request, with both entries.
C20_Witness ==
    /\ CycleCompleted
    /\ outcome = "returned"
    /\ selected_wallets = {"CRYPTOCOIN", "LEVERAGE"}
    /\ requests = <<"ticker", "asset-wallets">>
    /\ Categories(coordinator_data) = {"CRYPTOCOIN", "LEVERAGE"}

\* an execution ends in UpdateFailed at the asset-wallets or the
\* fiatwallets step, by the request or by the normalization of its body
FailsAfterTicker ==
    /\ pc \in {"asset_wallets", "fiatwallets"}
    /\ outcome' = "UpdateFailed"
    /\ pc' = "idle"

\* C22: the step in which the ticker request succeeds stores the fetched
\* table in the coordinator; the stored table does not change again in
\* that execution, also not in the step in which the execution fails at the
\* asset-wallets or the fiatwallets step, which leaves the published
\* snapshot as it was when the execution began; and the published snapshot
\* changes only when an execution returns its own local dict or a new
\* coordinator is built, never in a step that stores a table.
C22_TickerKeptOnFailure ==
    [][/\ pc = "ticker" =>
              \A r \in Responses(TickerBodies) :
                  (~RequestFailed(r) /\ TickerResponse(r)) => ticker_data' = r.json
       /\ pc \in {"asset_wallets", "fiatwallets", "return"} =>
              ticker_data' = ticker_data
       /\ FailsAfterTicker =>
              /\ coordinator_data' = at_begin.data
              /\ next_update' = now' + UPDATE_INTERVAL
       /\ coordinator_data' # coordinator_data =>
              \/ pc = "return" /\ coordinator_data' = data /\ ticker_data' = ticker_data
              \/ coordinator_data' = EmptyDict]_vars

\* C22 witness: the snapshot was computed with one table (two bitcoin at
\* 50.000), a later execution has stored another table and then failed
\* after its ticker request; the snapshot still has the old value.
C22_Witness ==
    /\ CycleCompleted
    /\ outcome = "UpdateFailed"
    /\ Len(requests) >= 2
    /\ ticker_data = TickerB
    /\ "CRYPTOCOIN" \in DOMAIN coordinator_data
    /\ coordinator_data["CRYPTOCOIN"].total_balance = 2 * 50000


\* ------------------------------------------------------------------------
\* Properties of the normalizers (checked under SpecNormalizer)

\* the numeric reading of a scalar that spells a number
IsNumber(x) == x.k \in {"num", "numstr"}

\* the wallet records of the raw fiat response
RawFiatWallets == Get(raw.fiat_json, "data", <<>>)

\* the positions of the fiat wallets in the target currency
FiatMatches ==
    {i \in 1..Len(RawFiatWallets) :
        LET a == Get(RawFiatWallets[i], "attributes", EmptyDict)
        IN  "fiat_symbol" \in DOMAIN a /\ a["fiat_symbol"] = raw.currency}

FirstFiatMatch == CHOOSE i \in FiatMatches : \A j \in FiatMatches : i <= j

FiatNormalized == raw.kind = "fiat" /\ "FIAT" \in DOMAIN parsed

RawCryptoWallets == raw.json["data"]["attributes"]["cryptocoin"]["attributes"]["wallets"]

WalletAttrs(w) == Get(w, "attributes", EmptyDict)

WalletSymbol(w) == Get(WalletAttrs(w), "cryptocoin_symbol", <<>>)

WalletBalance(w) == Get(WalletAttrs(w), "balance", Num(0))

\* the symbol ends in the long-2x or the short-1x marker
HasLeverageMarker(symbol) ==
    /\ Len(symbol) >= 2
    /\ <<symbol[Len(symbol) - 1], symbol[Len(symbol)]>> \in {<<"2", "L">>, <<"1", "S">>}

\* what a holding says of the wallet it was made from
HoldingKey(h) == [name |-> h.name, symbol |-> h.currency, balance |-> h.balance_token]

WalletKey(w) ==
    [name |-> Get(WalletAttrs(w), "name", ""), symbol |-> WalletSymbol(w),
     balance |-> WalletBalance(w).v]

Keys(seq, Key(_)) == [i \in 1..Len(seq) |-> Key(seq[i])]

\* the wallets that belong to LEVERAGE (leveraged = TRUE) or to CRYPTOCOIN
MarkedWallets(leveraged) ==
    LET Test(w) == HasLeverageMarker(WalletSymbol(w)) = leveraged
    IN  SelectSeq(RawCryptoWallets, Test)

PositiveMarkedWallets(leveraged) ==
    LET Test(w) == /\ IsNumber(WalletBalance(w))
                   /\ WalletBalance(w).v > 0
                   /\ HasLeverageMarker(WalletSymbol(w)) = leveraged
    IN  SelectSeq(RawCryptoWallets, Test)

\* normalization of wallet type LEVERAGE / CRYPTOCOIN raises exactly when a
\* balance of the list spells no number, or the price of one of its own
\* positive wallets does not
ShouldRaise(leveraged) ==
    \/ \E i \in 1..Len(RawCryptoWallets) : ~IsNumber(WalletBalance(RawCryptoWallets[i]))
    \/ \E i \in 1..Len(PositiveMarkedWallets(leveraged)) :
           LET symbol == WalletSymbol(PositiveMarkedWallets(leveraged)[i])
           IN  /\ symbol \in DOMAIN raw.ticker_data
               /\ raw.currency \in DOMAIN raw.ticker_data[symbol]
               /\ ~IsNumber(raw.ticker_data[symbol][raw.currency])

CryptoNormalized == raw.kind = "crypto" /\ "CRYPTOCOIN" \in DOMAIN parsed

HoldingsOf(wallet_type) == Keys(parsed[wallet_type].entry.wallets, HoldingKey)

\* C10 (as stated): whenever both normalizations return, every wallet of
\* the combined list is a holding of exactly one of LEVERAGE and
\* CRYPTOCOIN: of LEVERAGE when its symbol ends in '2L' or '1S', of
\* CRYPTOCOIN otherwise.
C10_EveryWalletInOneCategory ==
    (CryptoNormalized /\ ~parsed["LEVERAGE"].raised /\ ~parsed["CRYPTOCOIN"].raised) =>
        /\ HoldingsOf("LEVERAGE") = Keys(MarkedWallets(TRUE), WalletKey)
        /\ HoldingsOf("CRYPTOCOIN") = Keys(MarkedWallets(FALSE), WalletKey)

\* C10 (amended): each of the two normalizations that returns lists, in the
\* order of the response, exactly the wallets with a balance above zero
\* whose symbol has (LEVERAGE) or has not (CRYPTOCOIN) the marker, so that
\* the wallets with a positive balance are split between the two without
\* overlap and the others are in neither; a normalization raises exactly
\* when a balance of the list, or the price of one of its own wallets,
\* spells no number.
C10_PositiveWalletsPartitioned ==
    CryptoNormalized =>
        /\ parsed["LEVERAGE"].raised <=> ShouldRaise(TRUE)
        /\ parsed["CRYPTOCOIN"].raised <=> ShouldRaise(FALSE)
        /\ ~parsed["LEVERAGE"].raised =>
               HoldingsOf("LEVERAGE") = Keys(PositiveMarkedWallets(TRUE), WalletKey)
        /\ ~parsed["CRYPTOCOIN"].raised =>
               HoldingsOf("CRYPTOCOIN") = Keys(PositiveMarkedWallets(FALSE), WalletKey)

\* C10 witness: a list with a '2L' wallet, a '1S' wallet and an ordinary
\* wallet, all with a positive balance, normalized for both wallet types.
C10_Witness ==
    /\ CryptoNormalized
    /\ Len(parsed["LEVERAGE"].entry.wallets) = 2
    /\ Len(parsed["CRYPTOCOIN"].entry.wallets) = 1
    /\ \E i \in 1..2 : parsed["LEVERAGE"].entry.wallets[i].currency = ETH1S

\* an asset response has been normalized for every asset wallet type
AssetsNormalized == raw.kind = "crypto" /\ "STOCK" \in DOMAIN parsed

\* the wallet records of the raw response that belong to a wallet type
RawWalletsOf(wallet_type) ==
    IF raw.kind = "crypto" /\ wallet_type \in {"CRYPTOCOIN", "LEVERAGE"}
    THEN MarkedWallets(wallet_type = "LEVERAGE")
    ELSE IF raw.kind = "crypto" /\ wallet_type = "STOCK"
    THEN raw.json["data"]["attributes"]["security"]["stock"]["attributes"]["wallets"]
    ELSE <<>>

HasPositiveBalance(w) == IsNumber(WalletBalance(w)) /\ WalletBalance(w).v > 0

PositiveWalletsOf(wallet_type) ==
    SelectSeq(RawWalletsOf(wallet_type), HasPositiveBalance)

\* the ticker table has a price of the symbol in the target currency
Priced(symbol) ==
    /\ symbol \in DOMAIN raw.ticker_data
    /\ raw.currency \in DOMAIN raw.ticker_data[symbol]

IsPriced(w) == Priced(WalletSymbol(w))

PriceOf(symbol) ==
    IF Priced(symbol) THEN raw.ticker_data[symbol][raw.currency].v ELSE 0

RECURSIVE SumInts(_)
SumInts(seq) ==
    IF Len(seq) = 0 THEN 0 ELSE Head(seq) + SumInts(Tail(seq))

\* balance x price of each wallet, not rounded
ExactValues(wallets) ==
    [i \in 1..Len(wallets) |->
        WalletBalance(wallets[i]).v * PriceOf(WalletSymbol(wallets[i]))]

\* the value stored in each holding
StoredValues(holdings) ==
    [i \in 1..Len(holdings) |-> holdings[i].balance_currency]

\* the asset half of C11: a normalization that returns lists exactly the
\* wallets with a balance above zero and totals their values only
NonPositiveExcluded(wallet_type) ==
    ~parsed[wallet_type].raised =>
        /\ HoldingsOf(wallet_type) = Keys(PositiveWalletsOf(wallet_type), WalletKey)
        /\ parsed[wallet_type].entry.total_balance =
               SumInts(ExactValues(PositiveWalletsOf(wallet_type)))

\* C11 (as stated): in every entry, FIAT included, a wallet whose balance
\* is zero, negative or absent is no holding and adds nothing to the total:
\* an asset entry lists and totals the wallets with a positive balance only,
\* and the FIAT entry has no holding and a total of 0 when the wallet that
\* decides it has a balance of zero or less.
C11_NonPositiveContributesNothing ==
    /\ AssetsNormalized =>
           \A wallet_type \in asset_types : NonPositiveExcluded(wallet_type)
    /\ (FiatNormalized /\ ~parsed["FIAT"].raised) =>
           /\ parsed["FIAT"].entry.wallets = <<>>
           /\ (/\ FiatMatches # {}
               /\ Get(RawFiatWallets[FirstFiatMatch]["attributes"],
                      "balance", Num(0)).v <= 0)
                  => parsed["FIAT"].entry.total_balance = 0

\* C12: in every asset entry that normalization returns, the holdings are,
\* in order, the wallets with a positive balance; one whose symbol is not in
\* the ticker table, or has no price in the target currency there, is
\* listed with its name, symbol and balance and the value 0, and the total
\* is the sum over the priced wallets alone.
C12_UnpricedHoldingKept ==
    AssetsNormalized =>
        \A wallet_type \in asset_types :
            ~parsed[wallet_type].raised =>
                LET W == PositiveWalletsOf(wallet_type)
                    H == parsed[wallet_type].entry.wallets
                IN  /\ Len(H) = Len(W)
                    /\ \A i \in 1..Len(W) :
                           ~IsPriced(W[i]) =>
                               /\ HoldingKey(H[i]) = WalletKey(W[i])
                               /\ H[i].balance_currency = 0
                    /\ parsed[wallet_type].entry.total_balance =
                           SumInts(ExactValues(SelectSeq(W, IsPriced)))

\* C12 witness: an entry with a positive total that lists a wallet of
\* positive balance whose symbol has no price, at value 0.
C12_Witness ==
    /\ AssetsNormalized
    /\ \E wallet_type \in {"CRYPTOCOIN", "LEVERAGE", "STOCK"} :
           /\ ~parsed[wallet_type].raised
           /\ parsed[wallet_type].entry.total_balance > 0
           /\ \E i \in 1..Len(parsed[wallet_type].entry.wallets) :
                  LET h == parsed[wallet_type].entry.wallets[i]
                  IN  /\ ~Priced(h.currency)
                      /\ h.balance_token > 0
                      /\ h.balance_currency = 0

\* C13 (as stated): the total of every asset entry is the sum of the
\* values stored in its holdings, which are rounded to two decimals.
C13_TotalIsSumOfStored ==
    AssetsNormalized =>
        \A wallet_type \in asset_types :
            ~parsed[wallet_type].raised =>
                parsed[wallet_type].entry.total_balance =
                    SumInts(StoredValues(parsed[wallet_type].entry.wallets))

\* C13 (amended): the total of every asset entry is the sum of
\* balance x price, not rounded, over the wallets its holdings list (0 when
\* there are none); the value stored in each holding is that product
\* rounded to two decimals, so the total and the sum of the stored values
\* differ by at most half a hundredth per holding.
C13_TotalIsSumOfUnrounded ==
    AssetsNormalized =>
        \A wallet_type \in asset_types :
            ~parsed[wallet_type].raised =>
                LET W == PositiveWalletsOf(wallet_type)
                    H == parsed[wallet_type].entry.wallets
                    total == parsed[wallet_type].entry.total_balance
                    stored == SumInts(StoredValues(H))
                IN  /\ Len(H) = Len(W)
                    /\ total = SumInts(ExactValues(W))
                    /\ \A i \in 1..Len(W) :
                           H[i].balance_currency = round2(ExactValues(W)[i])
                    /\ total - stored <= 5 * Len(H)
                    /\ stored - total <= 5 * Len(H)

\* C13 witness: a stock entry with two holdings or more whose total is not
\* the sum of the stored values.
C13_Witness ==
    /\ AssetsNormalized
    /\ ~parsed["STOCK"].raised
    /\ Len(parsed["STOCK"].entry.wallets) >= 2
    /\ parsed["STOCK"].entry.total_balance #
           SumInts(StoredValues(parsed["STOCK"].entry.wallets))

\* the wallet types whose sub-tree is looked up by key
KeyedTypes == {"INDEX", "STOCK", "ETF", "ETC", "METAL"}

KeyedNormalized == raw.kind = "asset" /\ "STOCK" \in DOMAIN parsed

RawAttributes ==
    Get(Get(raw.json, "data", EmptyDict), "attributes", EmptyDict)

\* the wallets of a sub-tree (a dict with attributes.wallets)
WalletsIn(subtree) ==
    Get(Get(subtree, "attributes", EmptyDict), "wallets", <<>>)

\* the key of the wallet type exists under the grouping key
NestedKeyExists(grouping, key) ==
    key \in DOMAIN Get(RawAttributes, grouping, EmptyDict)

\* the grouping keys, in the order of the lookup, under which the key exists
NestedMatches(key) ==
    {i \in 1..Len(GroupingKeys) : NestedKeyExists(GroupingKeys[i], key)}

FirstNested(key) ==
    GroupingKeys[CHOOSE i \in NestedMatches(key) : \A j \in NestedMatches(key) : i <= j]

\* the wallets the lookup rule selects: those of the flat key when it
\* exists, else those of the first grouping key that holds the key
SelectedByRule(key) ==
    IF key \in DOMAIN RawAttributes
    THEN WalletsIn(RawAttributes[key])
    ELSE IF NestedMatches(key) # {}
    THEN WalletsIn(RawAttributes[FirstNested(key)][key])
    ELSE <<>>

\* the response holds a wallet group of the wallet type under the flat key
FlatGroupHeld(key) ==
    key \in DOMAIN RawAttributes /\ "attributes" \in DOMAIN RawAttributes[key]

\* the entry lists exactly these wallets and totals their values
EntryIs(wallet_type, wallets) ==
    /\ ~parsed[wallet_type].raised
    /\ HoldingsOf(wallet_type) = Keys(SelectSeq(wallets, HasPositiveBalance), WalletKey)
    /\ parsed[wallet_type].entry.total_balance =
           SumInts(ExactValues(SelectSeq(wallets, HasPositiveBalance)))

\* the lookup order alone: the entry is that of the wallets the rule
\* selects, empty with total 0 when no path matches, and nothing raises
LookupFollowsRule ==
    KeyedNormalized =>
        \A wallet_type \in KeyedTypes :
            EntryIs(wallet_type, SelectedByRule(lower(wallet_type)))

\* wallets held under a grouping key, and not under the flat key, are found
NestedWalletsFound ==
    KeyedNormalized =>
        \A wallet_type \in KeyedTypes :
            LET key == lower(wallet_type)
            IN  (~FlatGroupHeld(key) /\ NestedMatches(key) # {}) =>
                    EntryIs(wallet_type, WalletsIn(RawAttributes[FirstNested(key)][key]))

\* C21 (as stated): for INDEX, STOCK, ETF, ETC and METAL the entry is that
\* of the wallets under the flat key when the key exists, else of those
\* under the first of 'security', 'commodity', 'index' that holds the key
\* (later paths are ignored); wallets that the response holds under a
\* grouping key for the wallet type are found; when no path matches the
\* entry is empty with total 0 and normalization does not raise.
C21_FirstPathWins == LookupFollowsRule /\ NestedWalletsFound


\* ------------------------------------------------------------------------
\* Properties of the flows (checked under SpecConfigFlow)

\* the answer to the validation request is a success: status 200 and a
\* body with 'data'
ValidationSucceeds(r) == ~r.error /\ r.status = 200 /\ "data" \in DOMAIN r.json

\* C14 (as stated): a submission of the first form goes on to the wallets
\* form exactly when the validation request is answered with 200 and a body
\* with 'data'; an answer of 401 puts the error invalid_api_key on the form;
\* any other failure puts an error on the form that is not invalid_api_key.
C14_ThreeWayClassification ==
    [][\A user_input \in UserInputs \ {EmptyDict}, r \in Responses(TestBodies) :
           async_step_user(user_input, r) =>
               /\ step_id' = "wallets" <=> ValidationSucceeds(r)
               /\ (~r.error /\ r.status = 401) => errors' = "invalid_api_key"
               /\ (~ValidationSucceeds(r) /\ (r.error \/ r.status # 401)) =>
                      errors' \notin {"", "invalid_api_key"}]_vars

\* C15: whatever is submitted to the wallets form of the wizard or of the
\* options flow, an entry that exists has a non-empty selection; a
\* submission with an empty selection leaves entry and options as they
\* were and shows the wallets form again with the error
\* no_wallets_selected.
C15_SelectionNeverEmpty ==
    [][/\ phase' # "no_entry" => entry_options' # {}
       /\ (\/ async_step_wallets([wallet |-> {}])
           \/ options_async_step_wallets([wallet |-> {}]))
            => /\ errors' = "no_wallets_selected"
               /\ step_id' = "wallets"
               /\ handler' = handler
               /\ UNCHANGED <<phase, entry_options, currency>>]_vars

\* C15 witness: the options flow of an existing entry has rejected an
\* empty selection and shows its form again.
C15_Witness ==
    /\ phase = "created"
    /\ handler = "options"
    /\ step_id = "wallets"
    /\ errors = "no_wallets_selected"
    /\ entry_options # {}

====
